---- MODULE Spec2Model ----
(***************************************************************************)
(* State-machine model of rcue (src/src/main.rs): one run of main against  *)
(* a USB transport whose answers are nondeterministic.  Every call main    *)
(* makes on the transport is appended to the history `calls` together with *)
(* its outcome; `out` is what the run printed on standard output.          *)
(***************************************************************************)
EXTENDS Integers, Sequences, FiniteSets, TLC

\* ---------------------------------------------------------------- bounds
MaxDevices == 2     \* devices on the bus
MaxConfigs == 2     \* configurations declared by the opened device
MaxPattern == 2     \* distinct contents of the buffers handed to print_data alone

\* ------------------------------------------------------ program constants
VID == 6940         \* 0x1b1c
PID == 3106         \* 0x0c22
REPORT_LEN == 64    \* [0u8; 64] in read_interrupt, [u8; 64] in set_report

\* set_idle's request: REQEST_TYPE, REQUEST, VALUE, INDEX
IDLE_REQUEST == <<33, 10, 0, 0>>
\* set_report's request: REQEST_TYPE, REQUEST, VALUE, INDEX
REPORT_REQUEST == <<33, 9, 512, 0>>
\* Variant: the trigger byte 0x5b sits one place early.
DATA_misplaced ==
  [i \in 1..REPORT_LEN |->
     IF i = 1 THEN 63 ELSE IF i = 2 THEN 16 ELSE IF i = 3 THEN 255
     ELSE IF i = REPORT_LEN - 1 THEN 91 ELSE 0]

\* set_report's DATA
DATA ==
  [i \in 1..REPORT_LEN |->
     IF i = 1 THEN 63 ELSE IF i = 2 THEN 16 ELSE IF i = 3 THEN 255
     ELSE IF i = REPORT_LEN THEN 91 ELSE 0]

\* ----------------------------------------------------------- environment
\* Sequences over S of length lo..hi.
SeqsBetween(S, lo, hi) == UNION {[1..k -> S] : k \in lo..hi}

RECURSIVE Flatten(_)
Flatten(ss) == IF Len(ss) = 0 THEN <<>> ELSE Head(ss) \o Flatten(Tail(ss))

\* What the bus can hold: a device whose descriptor cannot be read, devices
\* that differ from the target in the vendor or in the product id, and the
\* target device, which may or may not let itself be opened.
DeviceKinds ==
  { [descOk |-> FALSE, vid |-> 0,       pid |-> 0,       openOk |-> TRUE],
    [descOk |-> TRUE,  vid |-> VID + 1, pid |-> PID,     openOk |-> TRUE],
    [descOk |-> TRUE,  vid |-> VID,     pid |-> PID + 1, openOk |-> TRUE],
    [descOk |-> TRUE,  vid |-> VID,     pid |-> PID,     openOk |-> FALSE],
    [descOk |-> TRUE,  vid |-> VID,     pid |-> PID,     openOk |-> TRUE] }

DeviceLists == SeqsBetween(DeviceKinds, 0, MaxDevices)

\* The descriptors of interface number ifnum, one per alternate setting;
\* shape[j] lists the endpoint addresses of alternate setting j - 1.
InterfaceOf(shape, ifnum) ==
  [j \in 1..Len(shape) |->
     [interface_number |-> ifnum, setting_number |-> j - 1,
      endpoints |-> shape[j]]]

\* Interface layouts a configuration may declare (interfaces, their alternate
\* settings, the endpoint addresses of each; 0x01.. are OUT, 0x81.. are IN):
\* no interface; one interface with one IN endpoint; two interfaces, the
\* first without endpoints, the second with an OUT and an IN endpoint in its
\* first alternate setting and an IN endpoint in its second.
InterfaceLayouts ==
  { <<>>,
    << <<<<129>>>> >>,
    << <<<<>>>>, <<<<1, 129>>, <<130>>>> >> }

InterfaceLists ==
  { [i \in 1..Len(g) |-> InterfaceOf(g[i], i - 1)] : g \in InterfaceLayouts }

\* Configuration descriptor n of the device, or one that fails to parse.
ConfigsAt(n) ==
  { [ok |-> FALSE, number |-> 0, interfaces |-> <<>>] }
  \cup { [ok |-> TRUE, number |-> n, interfaces |-> I] : I \in InterfaceLists }

Trees ==
  UNION { { t \in [1..k -> UNION {ConfigsAt(n) : n \in 1..k}] :
              \A n \in 1..k : t[n] \in ConfigsAt(n) }
          : k \in 0..MaxConfigs }

\* Lengths an interrupt transfer may report as read.
ReadLens == {0, 8, 9, 44, REPORT_LEN}

\* Content of the report the device sends.
Report == [i \in 1..REPORT_LEN |-> (i * 37 + 11) % 256]

\* Byte buffers of every length up to a full report, content pattern k.
Buffers ==
  { [i \in 1..L |-> (i * 37 * k + 11) % 256] : L \in 0..REPORT_LEN, k \in 1..MaxPattern }

\* One transport invocation and its outcome.
Call(op, ok, args, data) == [op |-> op, ok |-> ok, args |-> args, data |-> data]

\* ------------------------------------------------------------ open_device
\* The loop of open_device from device i on: index of the device returned,
\* 0 for None.
\* Variant: a device matches when either id matches.
RECURSIVE open_device_from_either(_, _, _, _)
open_device_from_either(devs, i, vid, pid) ==
  IF i > Len(devs) THEN 0
  ELSE IF ~devs[i].descOk THEN open_device_from_either(devs, i + 1, vid, pid)
  ELSE IF devs[i].vid = vid \/ devs[i].pid = pid
       THEN IF devs[i].openOk THEN i
            ELSE open_device_from_either(devs, i + 1, vid, pid)
       ELSE open_device_from_either(devs, i + 1, vid, pid)

\* Variant: a matching device that fails to open ends the search.
RECURSIVE open_device_from_stop(_, _, _, _)
open_device_from_stop(devs, i, vid, pid) ==
  IF i > Len(devs) THEN 0
  ELSE IF ~devs[i].descOk THEN open_device_from_stop(devs, i + 1, vid, pid)
  ELSE IF devs[i].vid = vid /\ devs[i].pid = pid
       THEN IF devs[i].openOk THEN i ELSE 0
       ELSE open_device_from_stop(devs, i + 1, vid, pid)

RECURSIVE open_device_from(_, _, _, _)
open_device_from(devs, i, vid, pid) ==
  IF i > Len(devs) THEN 0
  ELSE IF ~devs[i].descOk THEN open_device_from(devs, i + 1, vid, pid)
  ELSE IF devs[i].vid = vid /\ devs[i].pid = pid
       THEN IF devs[i].openOk THEN i
            ELSE open_device_from(devs, i + 1, vid, pid)
       ELSE open_device_from(devs, i + 1, vid, pid)

open_device(devs, vid, pid) == open_device_from(devs, 1, vid, pid)

\* The transport calls that loop makes.
RECURSIVE open_device_calls(_, _, _, _)
open_device_calls(devs, i, vid, pid) ==
  IF i > Len(devs) THEN <<>>
  ELSE IF ~devs[i].descOk
       THEN <<Call("device_descriptor", FALSE, <<i>>, <<>>)>>
            \o open_device_calls(devs, i + 1, vid, pid)
  ELSE LET d == Call("device_descriptor", TRUE, <<i>>, <<devs[i].vid, devs[i].pid>>)
       IN IF devs[i].vid = vid /\ devs[i].pid = pid
          THEN IF devs[i].openOk
               THEN <<d, Call("open", TRUE, <<i>>, <<>>)>>
               ELSE <<d, Call("open", FALSE, <<i>>, <<>>)>>
                    \o open_device_calls(devs, i + 1, vid, pid)
          ELSE <<d>> \o open_device_calls(devs, i + 1, vid, pid)

\* ------------------------------------------------ find_readable_endpoints
Endpoint(config, iface, setting, address) ==
  [config |-> config, iface |-> iface, setting |-> setting, address |-> address]

EndpointsOfDescriptor(config_desc, interface_desc) ==
  [k \in 1..Len(interface_desc.endpoints) |->
     Endpoint(config_desc.number, interface_desc.interface_number,
              interface_desc.setting_number, interface_desc.endpoints[k])]

EndpointsOfInterface(config_desc, interface) ==
  Flatten([j \in 1..Len(interface) |->
             EndpointsOfDescriptor(config_desc, interface[j])])

EndpointsOfConfig(config_desc) ==
  IF ~config_desc.ok THEN <<>>
  ELSE Flatten([i \in 1..Len(config_desc.interfaces) |->
                  EndpointsOfInterface(config_desc, config_desc.interfaces[i])])

\* Variant: a configuration that fails to parse ends the enumeration.
find_readable_endpoints_break(t) ==
  LET bad  == {n \in 1..Len(t) : ~t[n].ok}
      stop == IF bad = {} THEN Len(t)
              ELSE (CHOOSE n \in bad : \A m \in bad : n <= m) - 1
  IN Flatten([n \in 1..stop |-> EndpointsOfConfig(t[n])])

find_readable_endpoints(t) ==
  Flatten([n \in 1..Len(t) |-> EndpointsOfConfig(t[n])])

\* The config_descriptor(n) calls of the loop, n counted from 0 as in the code.
find_readable_endpoints_calls(t) ==
  [n \in 1..Len(t) |-> Call("config_descriptor", t[n].ok, <<n - 1>>, <<>>)]

\* ------------------------------------------------------------- print_data
\* Variant: the two bytes are read in big-endian order.
read_u16_at_be(buf, pos) ==
  IF pos + 2 <= Len(buf) THEN 256 * buf[pos + 1] + buf[pos + 2] ELSE 0

\* rdr.set_position(pos); rdr.read_u16::<LittleEndian>().unwrap_or_default()
read_u16_at(buf, pos) ==
  IF pos + 2 <= Len(buf) THEN buf[pos + 1] + 256 * buf[pos + 2] ELSE 0

\* "{:.2}" of v as f32 / 256.0, in hundredths of a degree (the quotient is
\* exact in f32; the formatter rounds the decimal expansion half to even).
TempHundredths(v) ==
  LET q == (v * 25) \div 64
      r == (v * 25) % 64
  IN IF r > 32 \/ (r = 32 /\ q % 2 = 1) THEN q + 1 ELSE q

Line(label, value) == [label |-> label, value |-> value]

print_data(buf) ==
  << Line("Temp", TempHundredths(read_u16_at(buf, 7))),
     Line("Fan 1", read_u16_at(buf, 15)),
     Line("Fan 2", read_u16_at(buf, 22)),
     Line("Fan 3", read_u16_at(buf, 43)),
     Line("Pump", read_u16_at(buf, 29)) >>

\* ------------------------------------------------------------------ state
VARIABLES
  pc,                 \* the statement of main that runs next
  status,             \* "running", or how the process ended
  calls,              \* history: the transport calls made so far
  out,                \* lines printed on standard output
  devices,            \* open_device's local list of enumerated devices
  device,             \* index of the opened device in the enumeration, 0 if none
  tree,               \* configuration descriptors of the opened device
  endpoints,          \* result of find_readable_endpoints
  endpoint,           \* endpoints.first()
  has_kernel_driver,  \* main's flag
  data                \* the buffer read_interrupt returned

vars == <<pc, status, calls, out, devices, device, tree, endpoints, endpoint,
          has_kernel_driver, data>>

NoEndpoint == Endpoint(-1, -1, -1, -1)

\* Process exit status: 0 for Ok(()), 1 for main returning Err, 101 for a panic.
ExitCode ==
  IF status = "ok" THEN 0 ELSE IF status = "err" THEN 1
  ELSE IF status = "panic" THEN 101 ELSE -1

Init ==
  /\ pc = "context_new"
  /\ status = "running"
  /\ calls = <<>>
  /\ out = <<>>
  /\ devices = <<>>
  /\ device = 0
  /\ tree = <<>>
  /\ endpoints = <<>>
  /\ endpoint = NoEndpoint
  /\ has_kernel_driver = FALSE
  /\ data = <<>>

\* The run goes on with statement p.
Goto(p) == pc' = p /\ status' = status

\* The run ends: `?` returns the Err ("err"), expect panics ("panic"),
\* main returns Ok(()) ("ok").
Exit(st) == pc' = "done" /\ status' = st

Invoke(c) == calls' = Append(calls, c)

\* ---------------------------------------------------------------- actions
\* let mut context = Context::new()?;
ContextNew ==
  /\ pc = "context_new"
  /\ \E ok \in BOOLEAN :
       /\ Invoke(Call("context_new", ok, <<>>, <<>>))
       /\ IF ok THEN Goto("devices") ELSE Exit("err")
  /\ UNCHANGED <<out, devices, device, tree, endpoints, endpoint,
                 has_kernel_driver, data>>

\* open_device: let devices = match context.devices() { ... Err(_) => return None }
\* and, on None, main's expect.
ContextDevices ==
  /\ pc = "devices"
  /\ \/ /\ Invoke(Call("devices", FALSE, <<>>, <<>>))
        /\ Exit("panic")
        /\ UNCHANGED devices
     \/ \E ds \in DeviceLists :
          /\ Invoke(Call("devices", TRUE, <<>>, <<>>))
          /\ devices' = ds
          /\ Goto("open_device")
  /\ UNCHANGED <<out, device, tree, endpoints, endpoint, has_kernel_driver, data>>

\* open_device: the loop over devices.iter(), and main's expect on its result.
OpenDevice ==
  /\ pc = "open_device"
  /\ calls' = calls \o open_device_calls(devices, 1, VID, PID)
  /\ device' = open_device(devices, VID, PID)
  /\ devices' = <<>>
  /\ IF device' = 0 THEN Exit("panic") ELSE Goto("find_readable_endpoints")
  /\ UNCHANGED <<out, tree, endpoints, endpoint, has_kernel_driver, data>>

\* let endpoints = find_readable_endpoints(&mut device)?;
FindReadableEndpoints ==
  /\ pc = "find_readable_endpoints"
  /\ \/ /\ Invoke(Call("device_descriptor", FALSE, <<device>>, <<>>))
        /\ Exit("err")
        /\ UNCHANGED <<tree, endpoints>>
     \/ \E t \in Trees :
          /\ calls' = Append(calls, Call("device_descriptor", TRUE, <<device>>, <<VID, PID>>))
                      \o find_readable_endpoints_calls(t)
          /\ tree' = t
          /\ endpoints' = find_readable_endpoints(t)
          /\ Goto("first")
  /\ UNCHANGED <<out, devices, device, endpoint, has_kernel_driver, data>>

\* Variant: the first IN endpoint is chosen when there is one.
First_readable ==
  /\ pc = "first"
  /\ IF Len(endpoints) = 0
       THEN Exit("panic") /\ UNCHANGED endpoint
       ELSE /\ LET readable == {i \in 1..Len(endpoints) : endpoints[i].address >= 128}
               IN endpoint' = IF readable = {} THEN endpoints[1]
                              ELSE endpoints[CHOOSE i \in readable :
                                               \A j \in readable : i <= j]
            /\ Goto("kernel_driver_active")
  /\ UNCHANGED <<calls, out, devices, device, tree, endpoints,
                 has_kernel_driver, data>>

\* Variant: an empty list is not checked for.
First_unchecked ==
  /\ pc = "first"
  /\ endpoint' = IF Len(endpoints) = 0 THEN NoEndpoint ELSE endpoints[1]
  /\ Goto("kernel_driver_active")
  /\ UNCHANGED <<calls, out, devices, device, tree, endpoints,
                 has_kernel_driver, data>>

\* let endpoint = endpoints.first().expect(...)
First ==
  /\ pc = "first"
  /\ IF Len(endpoints) = 0
       THEN Exit("panic") /\ UNCHANGED endpoint
       ELSE endpoint' = endpoints[1] /\ Goto("kernel_driver_active")
  /\ UNCHANGED <<calls, out, devices, device, tree, endpoints,
                 has_kernel_driver, data>>

\* Variant: the query's error is propagated with `?`.
KernelDriverActive_fatal ==
  /\ pc = "kernel_driver_active"
  /\ \E answer \in {"true", "false", "err"} :
       /\ Invoke(Call("kernel_driver_active", answer # "err", <<endpoint.iface>>,
                      IF answer = "true" THEN <<1>> ELSE <<>>))
       /\ IF answer = "true" THEN Goto("detach_kernel_driver")
          ELSE IF answer = "false" THEN Goto("set_active_configuration")
          ELSE Exit("err")
  /\ has_kernel_driver' = FALSE
  /\ UNCHANGED <<out, devices, device, tree, endpoints, endpoint, data>>

\* match handle.kernel_driver_active(endpoint.iface) { Ok(true) => ..., _ => false }
\* answer: "true", "false" or "err"
KernelDriverActive ==
  /\ pc = "kernel_driver_active"
  /\ \E answer \in {"true", "false", "err"} :
       /\ Invoke(Call("kernel_driver_active", answer # "err", <<endpoint.iface>>,
                      IF answer = "true" THEN <<1>> ELSE <<>>))
       /\ IF answer = "true" THEN Goto("detach_kernel_driver")
                             ELSE Goto("set_active_configuration")
  /\ has_kernel_driver' = FALSE
  /\ UNCHANGED <<out, devices, device, tree, endpoints, endpoint, data>>

\* Variant: the result of detach_kernel_driver is dropped.
DetachKernelDriver_ignored ==
  /\ pc = "detach_kernel_driver"
  /\ \E ok \in BOOLEAN :
       Invoke(Call("detach_kernel_driver", ok, <<endpoint.iface>>, <<>>))
  /\ has_kernel_driver' = TRUE
  /\ Goto("set_active_configuration")
  /\ UNCHANGED <<out, devices, device, tree, endpoints, endpoint, data>>

\* handle.detach_kernel_driver(endpoint.iface)?; true
DetachKernelDriver ==
  /\ pc = "detach_kernel_driver"
  /\ \E ok \in BOOLEAN :
       /\ Invoke(Call("detach_kernel_driver", ok, <<endpoint.iface>>, <<>>))
       /\ IF ok THEN has_kernel_driver' = TRUE /\ Goto("set_active_configuration")
                ELSE UNCHANGED has_kernel_driver /\ Exit("err")
  /\ UNCHANGED <<out, devices, device, tree, endpoints, endpoint, data>>

\* configure_endpoint: handle.set_active_configuration(endpoint.config)?;
SetActiveConfiguration ==
  /\ pc = "set_active_configuration"
  /\ \E ok \in BOOLEAN :
       /\ Invoke(Call("set_active_configuration", ok, <<endpoint.config>>, <<>>))
       /\ IF ok THEN Goto("claim_interface") ELSE Exit("err")
  /\ UNCHANGED <<out, devices, device, tree, endpoints, endpoint,
                 has_kernel_driver, data>>

\* configure_endpoint: handle.claim_interface(endpoint.iface)?;
ClaimInterface ==
  /\ pc = "claim_interface"
  /\ \E ok \in BOOLEAN :
       /\ Invoke(Call("claim_interface", ok, <<endpoint.iface>>, <<>>))
       /\ IF ok THEN Goto("set_alternate_setting") ELSE Exit("err")
  /\ UNCHANGED <<out, devices, device, tree, endpoints, endpoint,
                 has_kernel_driver, data>>

\* Variant: the result of set_alternate_setting is dropped.
SetAlternateSetting_ignored ==
  /\ pc = "set_alternate_setting"
  /\ \E ok \in BOOLEAN :
       Invoke(Call("set_alternate_setting", ok,
                   <<endpoint.iface, endpoint.setting>>, <<>>))
  /\ Goto("set_idle")
  /\ UNCHANGED <<out, devices, device, tree, endpoints, endpoint,
                 has_kernel_driver, data>>

\* configure_endpoint: handle.set_alternate_setting(endpoint.iface, endpoint.setting)
\* and main's `?` on configure_endpoint's result.
SetAlternateSetting ==
  /\ pc = "set_alternate_setting"
  /\ \E ok \in BOOLEAN :
       /\ Invoke(Call("set_alternate_setting", ok,
                      <<endpoint.iface, endpoint.setting>>, <<>>))
       /\ IF ok THEN Goto("set_idle") ELSE Exit("err")
  /\ UNCHANGED <<out, devices, device, tree, endpoints, endpoint,
                 has_kernel_driver, data>>

\* Variant: set_idle(&mut handle)?;
SetIdle_fatal ==
  /\ pc = "set_idle"
  /\ \E ok \in BOOLEAN :
       /\ Invoke(Call("write_control", ok, IDLE_REQUEST, <<>>))
       /\ IF ok THEN Goto("set_report") ELSE Exit("err")
  /\ UNCHANGED <<out, devices, device, tree, endpoints, endpoint,
                 has_kernel_driver, data>>

\* set_idle(&mut handle).ok();
SetIdle ==
  /\ pc = "set_idle"
  /\ \E ok \in BOOLEAN :
       Invoke(Call("write_control", ok, IDLE_REQUEST, <<>>))
  /\ Goto("set_report")
  /\ UNCHANGED <<out, devices, device, tree, endpoints, endpoint,
                 has_kernel_driver, data>>

\* Variant: set_report(&mut handle).ok();
SetReport_ignored ==
  /\ pc = "set_report"
  /\ \E ok \in BOOLEAN :
       Invoke(Call("write_control", ok, REPORT_REQUEST, DATA))
  /\ Goto("read_interrupt")
  /\ UNCHANGED <<out, devices, device, tree, endpoints, endpoint,
                 has_kernel_driver, data>>

\* set_report(&mut handle)?;
SetReport ==
  /\ pc = "set_report"
  /\ \E ok \in BOOLEAN :
       /\ Invoke(Call("write_control", ok, REPORT_REQUEST, DATA))
       /\ IF ok THEN Goto("read_interrupt") ELSE Exit("err")
  /\ UNCHANGED <<out, devices, device, tree, endpoints, endpoint,
                 has_kernel_driver, data>>

\* Variant: a failed read is tried once more.
ReadInterrupt_retry ==
  /\ pc = "read_interrupt"
  /\ \/ /\ Invoke(Call("read_interrupt", FALSE, <<endpoint.address>>, <<>>))
        /\ IF \E i \in 1..Len(calls) : calls[i].op = "read_interrupt"
             THEN Exit("err") ELSE Goto("read_interrupt")
        /\ UNCHANGED data
     \/ \E n \in ReadLens :
          LET buf == [i \in 1..REPORT_LEN |-> IF i <= n THEN Report[i] ELSE 0]
          IN /\ Invoke(Call("read_interrupt", TRUE, <<endpoint.address>>,
                            SubSeq(Report, 1, n)))
             /\ data' = buf
             /\ Goto("print_data")
  /\ UNCHANGED <<out, devices, device, tree, endpoints, endpoint,
                 has_kernel_driver>>

\* Variant: a failed read falls through to the cleanup.
ReadInterrupt_cleanup ==
  /\ pc = "read_interrupt"
  /\ \/ /\ Invoke(Call("read_interrupt", FALSE, <<endpoint.address>>, <<>>))
        /\ Goto("release_interface")
        /\ UNCHANGED data
     \/ \E n \in ReadLens :
          LET buf == [i \in 1..REPORT_LEN |-> IF i <= n THEN Report[i] ELSE 0]
          IN /\ Invoke(Call("read_interrupt", TRUE, <<endpoint.address>>,
                            SubSeq(Report, 1, n)))
             /\ data' = buf
             /\ Goto("print_data")
  /\ UNCHANGED <<out, devices, device, tree, endpoints, endpoint,
                 has_kernel_driver>>

\* let data = read_interrupt(&mut handle, endpoint.address)?;
\* The transfer writes the n bytes it received into buf, which starts as 64
\* zeroes; read_interrupt returns buf.to_vec().
ReadInterrupt ==
  /\ pc = "read_interrupt"
  /\ \/ /\ Invoke(Call("read_interrupt", FALSE, <<endpoint.address>>, <<>>))
        /\ Exit("err")
        /\ UNCHANGED data
     \/ \E n \in ReadLens :
          LET buf == [i \in 1..REPORT_LEN |-> IF i <= n THEN Report[i] ELSE 0]
          IN /\ Invoke(Call("read_interrupt", TRUE, <<endpoint.address>>,
                            SubSeq(Report, 1, n)))
             /\ data' = buf
             /\ Goto("print_data")
  /\ UNCHANGED <<out, devices, device, tree, endpoints, endpoint,
                 has_kernel_driver>>

\* print_data(data);
PrintData ==
  /\ pc = "print_data"
  /\ out' = out \o print_data(data)
  /\ Goto("release_interface")
  /\ UNCHANGED <<calls, devices, device, tree, endpoints, endpoint,
                 has_kernel_driver, data>>

\* Variant: the reattach does not look at the flag.
ReleaseInterface_unconditional ==
  /\ pc = "release_interface"
  /\ \E ok \in BOOLEAN :
       /\ Invoke(Call("release_interface", ok, <<endpoint.iface>>, <<>>))
       /\ IF ~ok THEN Exit("err") ELSE Goto("attach_kernel_driver")
  /\ UNCHANGED <<out, devices, device, tree, endpoints, endpoint,
                 has_kernel_driver, data>>

\* Variant: the result of release_interface is dropped.
ReleaseInterface_ignored ==
  /\ pc = "release_interface"
  /\ \E ok \in BOOLEAN :
       /\ Invoke(Call("release_interface", ok, <<endpoint.iface>>, <<>>))
       /\ IF has_kernel_driver THEN Goto("attach_kernel_driver") ELSE Exit("ok")
  /\ UNCHANGED <<out, devices, device, tree, endpoints, endpoint,
                 has_kernel_driver, data>>

\* handle.release_interface(endpoint.iface)?; if has_kernel_driver { ... } Ok(())
ReleaseInterface ==
  /\ pc = "release_interface"
  /\ \E ok \in BOOLEAN :
       /\ Invoke(Call("release_interface", ok, <<endpoint.iface>>, <<>>))
       /\ IF ~ok THEN Exit("err")
          ELSE IF has_kernel_driver THEN Goto("attach_kernel_driver")
          ELSE Exit("ok")
  /\ UNCHANGED <<out, devices, device, tree, endpoints, endpoint,
                 has_kernel_driver, data>>

\* handle.attach_kernel_driver(endpoint.iface)?; Ok(())
AttachKernelDriver ==
  /\ pc = "attach_kernel_driver"
  /\ \E ok \in BOOLEAN :
       /\ Invoke(Call("attach_kernel_driver", ok, <<endpoint.iface>>, <<>>))
       /\ IF ok THEN Exit("ok") ELSE Exit("err")
  /\ UNCHANGED <<out, devices, device, tree, endpoints, endpoint,
                 has_kernel_driver, data>>

Next ==
  \/ ContextNew
  \/ ContextDevices
  \/ OpenDevice
  \/ FindReadableEndpoints
  \/ First
  \/ KernelDriverActive
  \/ DetachKernelDriver
  \/ SetActiveConfiguration
  \/ ClaimInterface
  \/ SetAlternateSetting
  \/ SetIdle
  \/ SetReport
  \/ ReadInterrupt
  \/ PrintData
  \/ ReleaseInterface
  \/ AttachKernelDriver

Spec == Init /\ [][Next]_vars

\* print_data on its own, over buffers of every length.
InitDecode ==
  /\ pc = "print_data"
  /\ status = "running"
  /\ calls = <<>>
  /\ out = <<>>
  /\ devices = <<>>
  /\ device = 0
  /\ tree = <<>>
  /\ endpoints = <<>>
  /\ endpoint = NoEndpoint
  /\ has_kernel_driver = FALSE
  /\ data \in Buffers

NextDecode == PrintData

SpecDecode == InitDecode /\ [][NextDecode]_vars

\* ------------------------------------------------------------ type check
TypeOK ==
  /\ pc \in {"context_new", "devices", "open_device", "find_readable_endpoints",
             "first", "kernel_driver_active", "detach_kernel_driver",
             "set_active_configuration", "claim_interface",
             "set_alternate_setting", "set_idle", "set_report",
             "read_interrupt", "print_data", "release_interface",
             "attach_kernel_driver", "done"}
  /\ status \in {"running", "ok", "err", "panic"}
  /\ (pc = "done") <=> (status # "running")
  /\ device \in 0..(MaxDevices)
  /\ has_kernel_driver \in BOOLEAN
  /\ Len(out) \in {0, 5}
  /\ Len(data) \in 0..REPORT_LEN

\* ------------------------------------------------- reading the history
Last(h) == h[Len(h)]

\* Positions of the calls of operation op.
At(op) == {i \in 1..Len(calls) : calls[i].op = op}

Invoked(op) == At(op) # {}
Succeeded(op) == \E i \in At(op) : calls[i].ok
Failed(op) == \E i \in At(op) : ~calls[i].ok

IsIdle(c) == c.op = "write_control" /\ c.args = IDLE_REQUEST
IsSetReport(c) == c.op = "write_control" /\ c.args = REPORT_REQUEST

\* A step whose failure the code propagates with `?` once the session is
\* being configured.
IsMandatory(c) ==
  \/ c.op \in {"detach_kernel_driver", "set_active_configuration",
               "claim_interface", "set_alternate_setting", "read_interrupt"}
  \/ IsSetReport(c)

\* The read/decode sequence ran to its end.
SequenceSucceeded ==
  /\ Succeeded("set_alternate_setting")
  /\ \E i \in 1..Len(calls) : IsSetReport(calls[i]) /\ calls[i].ok
  /\ Succeeded("read_interrupt")
  /\ Len(out) = 5

\* ----------------------------------------------------------------- claims
\* C1: in every run in which detach_kernel_driver succeeds,
\* attach_kernel_driver is invoked exactly once before the run ends,
\* whatever the outcomes of the later steps.
C1_ReattachAlways ==
  (pc = "done" /\ Succeeded("detach_kernel_driver"))
    => Cardinality(At("attach_kernel_driver")) = 1

\* C2 (as stated): in every run in which claim_interface succeeded,
\* release_interface is invoked once the read/decode sequence has completed,
\* also when that sequence ended on a fatal failure.
C2_ReleaseAlways ==
  (pc = "done" /\ Succeeded("claim_interface"))
    => Cardinality(At("release_interface")) = 1

\* C2 (amended): in a run in which claim_interface succeeded,
\* release_interface is invoked, once and after the telemetry was printed,
\* exactly when the read/decode sequence succeeded; when that sequence ended
\* on a fatal failure release_interface is not invoked.
C2_ReleaseOnSuccessOnly ==
  (pc = "done" /\ Succeeded("claim_interface"))
    => /\ Cardinality(At("release_interface")) <= 1
       /\ Invoked("release_interface") <=> SequenceSucceeded

C2_Witness ==
  /\ pc = "done"
  /\ Succeeded("claim_interface")
  /\ Failed("read_interrupt")
  /\ ~Invoked("release_interface")

\* C3: when a mandatory step (detach, set-active-configuration,
\* claim-interface, set-alternate-setting, set-report, interrupt read) fails,
\* the run stops there: the failed call is the last transport call of the run,
\* so no release_interface and no attach_kernel_driver follows it.
C3_StopAtFailure ==
  \A i \in 1..Len(calls) :
    (IsMandatory(calls[i]) /\ ~calls[i].ok)
      => /\ i = Len(calls)
         /\ pc = "done"
         /\ status = "err"

C3_Witness ==
  /\ pc = "done"
  /\ Succeeded("detach_kernel_driver")
  /\ Succeeded("claim_interface")
  /\ IsSetReport(Last(calls)) /\ ~Last(calls).ok
  /\ ~Invoked("release_interface") /\ ~Invoked("attach_kernel_driver")

\* C4 (as stated): a failure of the kernel-driver query is fatal: the run
\* ends with an error and no later transport operation is invoked.
C4_QueryErrorFatal ==
  \A i \in At("kernel_driver_active") :
    ~calls[i].ok => (i = Len(calls) /\ pc = "done" /\ status = "err")

\* C4 (amended): a failure of the kernel-driver query is not fatal: it is
\* taken as "no driver active": detach_kernel_driver and attach_kernel_driver
\* are never invoked in that run, the flag stays false, and the next
\* transport operation is set_active_configuration.
C4_QueryErrorMeansNoDriver ==
  \A i \in At("kernel_driver_active") :
    ~calls[i].ok
      => /\ ~has_kernel_driver
         /\ ~Invoked("detach_kernel_driver")
         /\ ~Invoked("attach_kernel_driver")
         /\ IF i = Len(calls)
              THEN pc = "set_active_configuration" /\ status = "running"
              ELSE calls[i + 1].op = "set_active_configuration"

C4_Witness ==
  /\ Failed("kernel_driver_active")
  /\ pc = "done" /\ status = "ok"
  /\ Len(out) = 5

\* The order of session configuration, with the query required to have
\* succeeded (strict) or only to have been made.
ConfigurationOrder(strict) ==
  \A i \in 1..Len(calls) :
    LET Before(op) == \E j \in 1..(i - 1) : calls[j].op = op /\ calls[j].ok
        Queried == \E j \in 1..(i - 1) :
                     /\ calls[j].op = "kernel_driver_active"
                     /\ strict => calls[j].ok
    IN /\ calls[i].op = "detach_kernel_driver"
            => /\ i > 1
               /\ calls[i - 1].op = "kernel_driver_active"
               /\ calls[i - 1].ok /\ calls[i - 1].data = <<1>>
       /\ calls[i].op = "set_active_configuration"
            => /\ Queried
               /\ \A j \in 1..(i - 1) :
                    /\ calls[j].op = "kernel_driver_active" /\ calls[j].data = <<1>>
                         => Before("detach_kernel_driver")
                    /\ calls[j].op = "detach_kernel_driver" => calls[j].ok
       /\ calls[i].op = "claim_interface" => Before("set_active_configuration")
       /\ calls[i].op = "set_alternate_setting" => Before("claim_interface")
       /\ calls[i].op \in {"write_control", "read_interrupt"}
            => Before("set_alternate_setting")

\* C5 (as stated): configuration runs in the order query, detach (only when
\* the query answered "active"), set-active-configuration, claim-interface,
\* set-alternate-setting; each is invoked only after all earlier ones that
\* apply have succeeded, and no transfer precedes a successful
\* set-alternate-setting.
C5_StrictOrder == ConfigurationOrder(TRUE)

\* C5 (amended): the same order, except that the query need not have
\* succeeded: set-active-configuration is invoked after the query was made,
\* whether it answered "not active" or failed, and, when the query answered
\* "active", after detach succeeded.
C5_OrderAfterQuery == ConfigurationOrder(FALSE)

C5_Witness ==
  /\ Failed("kernel_driver_active")
  /\ Succeeded("set_alternate_setting")
  /\ Invoked("read_interrupt")

\* C6: a failure of the idle request is not fatal: the idle transfer's step
\* leads to set-report and leaves the flag, the output and the status as they
\* were whatever its outcome, so nothing but the history tells the two
\* outcomes apart; and the transfer issued after it is set-report.
C6_IdleNotFatal ==
  [][ /\ pc = "set_idle"
        => /\ pc' = "set_report"
           /\ IsIdle(Last(calls'))
           /\ UNCHANGED <<status, out, devices, device, tree, endpoints,
                          endpoint, has_kernel_driver, data>>
      /\ pc = "set_report"
        => /\ IsIdle(Last(calls))
           /\ IsSetReport(Last(calls')) ]_vars

C6_Witness ==
  /\ \E i \in 1..Len(calls) : IsIdle(calls[i]) /\ ~calls[i].ok
  /\ pc = "done" /\ status = "ok"
  /\ Len(out) = 5

\* C7: a failure of set-report is fatal: an interrupt read is issued only
\* after a set-report transfer succeeded in the same run, and a run whose
\* set-report failed ends with an error having printed nothing.
C7_SetReportFatal ==
  /\ \A i \in At("read_interrupt") :
       \E j \in 1..(i - 1) : IsSetReport(calls[j]) /\ calls[j].ok
  /\ \A j \in 1..Len(calls) :
       (IsSetReport(calls[j]) /\ ~calls[j].ok)
         => /\ pc = "done" /\ status = "err"
            /\ out = <<>>
            /\ ~Invoked("read_interrupt")

C7_Witness ==
  /\ \E j \in 1..Len(calls) : IsSetReport(calls[j]) /\ ~calls[j].ok
  /\ \E i \in 1..Len(calls) : IsIdle(calls[i]) /\ calls[i].ok
  /\ status = "err"

\* C8 (as stated): a run that ends with a non-zero status has printed no
\* telemetry line, and a run that printed the five lines ends with status
\* zero, also when release_interface or attach_kernel_driver fails.
C8_OutputIffSuccess ==
  pc = "done"
    => /\ ExitCode # 0 => out = <<>>
       /\ Len(out) = 5 => ExitCode = 0

\* C8 (amended): a run that ends with a non-zero status has printed no
\* telemetry line unless it ended on a failure of release_interface or
\* attach_kernel_driver; a run that printed the five lines ends with status
\* zero exactly when neither of these two failed.
C8_OutputUnlessTeardownFails ==
  pc = "done"
    => /\ (ExitCode # 0 /\ out # <<>>)
            => /\ Last(calls).op \in {"release_interface", "attach_kernel_driver"}
               /\ ~Last(calls).ok
       /\ Len(out) = 5
            => (ExitCode = 0 <=> ~(Failed("release_interface")
                                   \/ Failed("attach_kernel_driver")))

C8_Witness ==
  /\ pc = "done"
  /\ Len(out) = 5
  /\ Failed("release_interface")
  /\ ExitCode = 1

\* No device of the list matches both ids and lets itself be opened.
NoneOpens(devs) ==
  \A i \in 1..Len(devs) :
    ~(devs[i].descOk /\ devs[i].vid = VID /\ devs[i].pid = PID /\ devs[i].openOk)

\* C9: when no enumerated device matches both the vendor and the product id,
\* or none that matches can be opened, the search ends the run with a
\* non-zero status: nothing is printed, and the only transport calls of the
\* run are the enumeration, the descriptor reads and the open attempts of the
\* search.
C9_NoDeviceAborts ==
  [][ (pc = "open_device" /\ NoneOpens(devices))
        => /\ pc' = "done" /\ status' = "panic"
           /\ out' = <<>>
           /\ device' = 0
           /\ \A i \in 1..Len(calls') :
                calls'[i].op \in {"context_new", "devices",
                                  "device_descriptor", "open"} ]_vars

C9_Witness ==
  /\ pc = "done" /\ status = "panic"
  /\ Failed("open")
  /\ \E i \in At("device_descriptor") : calls[i].data = <<VID, PID + 1>>
  /\ out = <<>>

\* The descriptor walk of find_readable_endpoints has been made.
Enumerated ==
  \E i \in At("open") :
    calls[i].ok /\ i < Len(calls)
    /\ calls[i + 1].op = "device_descriptor" /\ calls[i + 1].ok

\* C10: when endpoint enumeration yields an empty list the run aborts before
\* any device mutation: none of detach_kernel_driver,
\* set_active_configuration, claim_interface, set_alternate_setting or a
\* control or interrupt transfer is invoked, and nothing is printed.
C10_NoEndpointAborts ==
  (Enumerated /\ Len(endpoints) = 0)
    => /\ pc = "first" \/ (pc = "done" /\ status = "panic")
       /\ out = <<>>
       /\ \A i \in 1..Len(calls) :
            calls[i].op \notin {"detach_kernel_driver", "set_active_configuration",
                                "claim_interface", "set_alternate_setting",
                                "write_control", "read_interrupt"}

C10_Witness ==
  /\ Enumerated
  /\ Len(tree) = 2 /\ tree[1].ok /\ tree[2].ok
  /\ Len(endpoints) = 0
  /\ pc = "done" /\ status = "panic"

\* Byte offsets of the fields in the order print_data prints them
\* (Temp, Fan 1, Fan 2, Fan 3, Pump).
FieldOffsets == <<7, 15, 22, 43, 29>>

\* The little-endian value of the two bytes at offset o of b, and 0 when the
\* two bytes are not both inside b.
FieldOf(b, o) == IF o + 2 <= Len(b) THEN b[o + 1] + 256 * b[o + 2] ELSE 0

\* What the line of field f shows for the decoded value v.
Shown(f, v) == IF f = 1 THEN TempHundredths(v) ELSE v

\* C11: for every buffer b of length 0..64, each of the five fields at
\* offsets 7, 15, 22, 29, 43 decodes on its own to b[o] + 256*b[o+1] when
\* o+2 <= Len(b) and to 0 otherwise; the decode always yields its five lines.
C11_DecodeFields ==
  pc # "print_data"
    => /\ Len(out) = 5
       /\ \A f \in 1..5 : out[f].value = Shown(f, FieldOf(data, FieldOffsets[f]))

C11_Witness ==
  /\ Len(out) = 5
  /\ Len(data) = 30
  /\ out[2].value = data[16] + 256 * data[17] /\ out[2].value > 255
  /\ out[4].value = 0
  /\ out[5].value = 0

\* C12: when the interrupt transfer succeeds reporting n bytes read, the
\* buffer read_interrupt returns has length n and holds exactly those bytes.
C12_ReturnsReceived ==
  \A i \in At("read_interrupt") :
    calls[i].ok => (Len(data) = Len(calls[i].data) /\ data = calls[i].data)

\* The device's descriptor can be read, matches both ids, and the device
\* lets itself be opened.
Opens(d) == d.descOk /\ d.vid = VID /\ d.pid = PID /\ d.openOk

\* C13: over any enumerated list, open_device returns the first device in
\* enumeration order whose descriptor matches both ids and whose open
\* succeeds; matching devices that fail to open and devices whose descriptor
\* cannot be read are passed over; it returns "not found" (0) exactly when no
\* matching device opens.
C13_FirstMatchOpened ==
  [][ pc = "open_device"
        => /\ device' = 0 <=> (\A j \in 1..Len(devices) : ~Opens(devices[j]))
           /\ device' # 0
                => /\ device' \in 1..Len(devices)
                   /\ Opens(devices[device'])
                   /\ \A j \in 1..(device' - 1) : ~Opens(devices[j]) ]_vars

C13_Witness ==
  /\ device = 2
  /\ \E i \in At("open") : ~calls[i].ok /\ calls[i].args = <<1>>
  /\ \E i \in At("open") : calls[i].ok /\ calls[i].args = <<2>>

\* The endpoint descriptors of tree t: <<n, i, j, k>> is endpoint k of
\* alternate setting j of interface i of configuration n, for the
\* configurations that parse.
Paths(t) ==
  UNION { UNION { UNION { { <<n, i, j, k>> :
                             k \in 1..Len(t[n].interfaces[i][j].endpoints) }
                          : j \in 1..Len(t[n].interfaces[i]) }
                  : i \in 1..Len(t[n].interfaces) }
          : n \in {m \in 1..Len(t) : t[m].ok} }

\* Descriptor enumeration order.
PathBefore(p, q) ==
  \E x \in 1..4 : (\A y \in 1..(x - 1) : p[y] = q[y]) /\ p[x] < q[x]

PathRank(t, p) == 1 + Cardinality({q \in Paths(t) : PathBefore(q, p)})

PathRecord(t, p) ==
  LET d == t[p[1]].interfaces[p[2]][p[3]]
  IN [config |-> t[p[1]].number, iface |-> d.interface_number,
      setting |-> d.setting_number, address |-> d.endpoints[p[4]]]

IsControl(c) == c.op = "write_control"

\* C15: in every run the outbound control transfers issued are a prefix of
\* two: first idle (request type 0x21, request 0x0A, value 0, index 0, empty
\* payload), then set-report (request type 0x21, request 0x09, value 0x0200,
\* index 0, 64-byte payload 3f 10 ff 00 .. 00 5b); set-report is never
\* issued before idle.
C15_ControlTransfers ==
  LET w == SelectSeq(calls, IsControl)
  IN /\ Len(w) <= 2
     /\ Len(w) >= 1 => (w[1].args = <<33, 10, 0, 0>> /\ w[1].data = <<>>)
     /\ Len(w) = 2
          => /\ w[2].args = <<33, 9, 512, 0>>
             /\ Len(w[2].data) = 64
             /\ w[2].data[1] = 63 /\ w[2].data[2] = 16 /\ w[2].data[3] = 255
             /\ w[2].data[64] = 91
             /\ \A i \in 4..63 : w[2].data[i] = 0

C15_Witness ==
  /\ Len(SelectSeq(calls, IsControl)) = 2
  /\ Succeeded("read_interrupt")

\* C16: teardown reattaches if and only if a driver was detached: in a run
\* that ended after release_interface succeeded, attach_kernel_driver was
\* invoked exactly when detach_kernel_driver had succeeded; it is never
\* invoked before a successful release_interface nor without an earlier
\* successful detach.
C16_ReattachIffDetached ==
  /\ (pc = "done" /\ Succeeded("release_interface"))
       => (Invoked("attach_kernel_driver") <=> Succeeded("detach_kernel_driver"))
  /\ \A i \in At("attach_kernel_driver") :
       /\ \E j \in 1..(i - 1) : calls[j].op = "release_interface" /\ calls[j].ok
       /\ \E j \in 1..(i - 1) : calls[j].op = "detach_kernel_driver" /\ calls[j].ok

C16_Witness ==
  /\ pc = "done"
  /\ Succeeded("detach_kernel_driver")
  /\ Succeeded("release_interface")
  /\ Last(calls).op = "attach_kernel_driver"

\* The field values a partial read of the bytes b would show under C17.
PartialShown(b) ==
  [f \in 1..5 |-> Shown(f, FieldOf(b, FieldOffsets[f]))]

\* C17: when the interrupt transfer succeeds but delivers only n < 64 bytes,
\* the value printed for each field at offset o is 0 whenever o+2 > n, also
\* when only the field's low byte was received (o+1 = n), and is
\* b[o] + 256*b[o+1] whenever o+2 <= n.
C17_PartialReadShowsZero ==
  \A i \in At("read_interrupt") :
    (calls[i].ok /\ Len(calls[i].data) < REPORT_LEN /\ Len(out) = 5)
      => \A f \in 1..5 : out[f].value = PartialShown(calls[i].data)[f]

\* C18: no retries: in a run each of detach_kernel_driver,
\* set_active_configuration, claim_interface, set_alternate_setting, the
\* idle transfer, the set-report transfer, the interrupt read,
\* release_interface and attach_kernel_driver is invoked at most once, also
\* after it failed.
C18_AtMostOnce ==
  /\ \A op \in {"detach_kernel_driver", "set_active_configuration",
                "claim_interface", "set_alternate_setting", "read_interrupt",
                "release_interface", "attach_kernel_driver"} :
       Cardinality(At(op)) <= 1
  /\ Cardinality({i \in 1..Len(calls) : IsIdle(calls[i])}) <= 1
  /\ Cardinality({i \in 1..Len(calls) : IsSetReport(calls[i])}) <= 1

C18_Witness ==
  /\ pc = "done"
  /\ Failed("read_interrupt")
  /\ \E i \in 1..Len(calls) : IsIdle(calls[i]) /\ ~calls[i].ok
  /\ Cardinality(At("read_interrupt")) = 1

C20_ReleaseFailureSkipsReattach ==
  Failed("release_interface")
    => /\ pc = "done" /\ status = "err"
       /\ Last(calls).op = "release_interface"
       /\ ~Invoked("attach_kernel_driver")
       /\ Len(out) = 5

C20_Witness ==
  /\ Failed("release_interface")
  /\ Succeeded("detach_kernel_driver")
  /\ has_kernel_driver
  /\ pc = "done"

====
